---- MODULE Spec2Model ----
(***************************************************************************)
(* Flow-sensitive lint passes of github.com/StevenACoffman/fixer/linters:  *)
(*   - log_or_return_error  (_checkBlockForLogsAndReturns, a recursive     *)
(*     walk of a function's control-flow graph),                           *)
(*   - httpreturn           (_checkCFG, a per-block scan),                 *)
(*   - permissions / always_close fact marking and querying.               *)
(*                                                                         *)
(* A control-flow graph is a function from block index (0 is the entry) to *)
(* a record [Live, Nodes, Succs], as golang.org/x/tools/go/cfg supplies    *)
(* it.  A block node is abstracted to [kind, refs]: its syntactic kind and *)
(* the identifiers the pass looks at, in source order.  The position of    *)
(* the k-th identifier of node n of block b is <<b, n, k>>.                *)
(***************************************************************************)
EXTENDS Integers, Sequences, FiniteSets, TLC

VARIABLES
    analyzer,        \* which pass runs: "log", "http"
    sig,             \* result fields of the function's signature
    cfg,             \* the function's control-flow graph
    stack,           \* call stack of _checkBlockForLogsAndReturns (top is last)
    heap,            \* the loggedErrors maps allocated so far, by reference
    traversedPaths,  \* edge -> number of times traversed
    diags,           \* diagnostics reported by pass.Reportf, in order
    run,             \* 1 for the first run of the pass over cfg, 2 for the second
    firstDiags,      \* diagnostics of the first run
    hblock,          \* _checkCFG: index of the block being checked
    hnode,           \* _checkCFG: index of the next node of that block
    mustReturn,      \* _checkCFG: the identifier after which we must return
    unit,            \* the declarations of the package a fact-using pass runs on
    facts,           \* the object facts exported so far: <<object, fact type>>
    queries,         \* (history) the ImportObjectFact calls made and their results
    phase,           \* the loop a fact-using pass is in
    di,              \* index of the declaration that loop is at
    ni,              \* _scanFuncDecl: index of the next node of the walk
    closables,       \* _scanFuncDecl: object -> the identifier it was assigned at
    pkgs,            \* the packages the driver analyses: [imports, decls]
    cur,             \* the package whose pass runs, 0 for a pass run on its own
    exported         \* package -> the object facts its pass ended with

logVars == <<stack, heap, traversedPaths>>
httpVars == <<hblock, hnode, mustReturn>>
driverVars == <<pkgs, cur, exported>>
unitVars == <<unit, facts, queries, phase, di, ni, closables, driverVars>>
flowVars == <<sig, cfg, stack, heap, traversedPaths, run, firstDiags,
              hblock, hnode, mustReturn>>
vars == <<analyzer, sig, cfg, stack, heap, traversedPaths, diags, run, firstDiags,
          hblock, hnode, mustReturn, unit, facts, queries, phase, di, ni, closables,
          pkgs, cur, exported>>

---------------------------------------------------------------------------
(* Bounds of the model *)

\* total number of nodes in a generated function body
MaxNodes == 4
\* number of blocks of the graphs of the topology family
MaxBlocks == 2
\* number of declarations of a package
MaxDecls == 3
\* number of conditionals in a row in a function body
MaxIfs == 3
\* number of fields of a result list, and of names a field declares
MaxFields == 3
MaxNames == 2
\* number of packages of an import graph
MaxPkgs == 3
\* number of declarations of a package of an import graph
MaxPkgDecls == 2

---------------------------------------------------------------------------
(* Values *)

\* nil *token.Pos
Nil == <<>>
\* nil types.Object
NilObj == "nil"
\* an expression that is no identifier
NoIdent == "_"
\* identifiers that type information cannot resolve to an object
Unresolvable == {"gen"}
\* variables of static type error
ErrorTyped == {"err"}

\* nil *ast.Ident
NoCall == [pos |-> <<>>, name |-> "nil"]

LoggedTwice == "This error is being logged twice. Previously logged at"
LoggedAndReturned == "Errors may be logged or returned, but not both. Previously logged at"

ErrorField == [type |-> "error", names |-> 0]

AssignErr == [kind |-> "assign", refs |-> <<"err">>]
LogErr == [kind |-> "log", refs |-> <<"err">>]
ReturnErr == [kind |-> "return", refs |-> <<"err">>]
\* http.Error(w, ...), log(x) and return as statements of a handler
HTTPError == [kind |-> "other", refs |-> <<"net/http.Error">>]
LogX == [kind |-> "other", refs |-> <<"log", "x">>]
ReturnStmt == [kind |-> "return", refs |-> <<>>]

RECURSIVE SumSeq(_)
SumSeq(s) == IF s = <<>> THEN 0 ELSE Head(s) + SumSeq(Tail(s))

---------------------------------------------------------------------------
(* Symbol resolution *)

ObjectFor(ident) ==
    IF ident = NoIdent \/ ident \in Unresolvable THEN NilObj ELSE ident

\* the pass runs on one package alone
NoDriver ==
    /\ pkgs = <<>>
    /\ cur = 0
    /\ exported = <<>>

\* no fact-using pass runs
NoUnit ==
    /\ NoDriver
    /\ unit = <<>>
    /\ facts = {}
    /\ queries = {}
    /\ phase = "idle"
    /\ di = 1
    /\ ni = 1
    /\ closables = <<>>

---------------------------------------------------------------------------
(* _errorResultIndices: the indices of the error results of a signature *)

RECURSIVE ErrorIndicesFrom(_, _, _)
ErrorIndicesFrom(list, i, indices) ==
    IF list = <<>> THEN indices
    ELSE LET result == Head(list)
         IN IF result.type = "error"
            THEN ErrorIndicesFrom(Tail(list), i, Append(indices, i))
            ELSE IF result.names > 0
                 THEN ErrorIndicesFrom(Tail(list), i + result.names, indices)
                 ELSE ErrorIndicesFrom(Tail(list), i + 1, indices)

_errorResultIndices(results) == ErrorIndicesFrom(results, 0, <<>>)

---------------------------------------------------------------------------
(* The per-node callback of _checkBlockForLogsAndReturns.  Each operator   *)
(* takes and returns [m, d]: the loggedErrors map and the diagnostics      *)
(* reported so far for the node.                                           *)

Report(pos, msg, arg) == [pos |-> pos, msg |-> msg, arg |-> arg]

\* an assignment that keeps the mark of a target that is in the map (a
\* slip: the entry written only when there is none)
RECURSIVE AssignKeepsMark(_, _, _)
AssignKeepsMark(refs, k, st) ==
    IF k > Len(refs) THEN st
    ELSE LET errorObj == ObjectFor(refs[k])
         IN IF errorObj # NilObj /\ errorObj \in ErrorTyped /\ errorObj \notin DOMAIN st.m
            THEN AssignKeepsMark(refs, k + 1,
                                 [st EXCEPT !.m = (errorObj :> Nil) @@ st.m])
            ELSE AssignKeepsMark(refs, k + 1, st)

\* case *ast.AssignStmt: every error-typed target becomes "not yet logged"
RECURSIVE InspectAssign(_, _, _)
InspectAssign(refs, k, st) ==
    IF k > Len(refs) THEN st
    ELSE LET errorObj == ObjectFor(refs[k])
         IN IF errorObj # NilObj /\ errorObj \in ErrorTyped
            THEN InspectAssign(refs, k + 1,
                               [st EXCEPT !.m = (errorObj :> Nil) @@ st.m])
            ELSE InspectAssign(refs, k + 1, st)

\* the logger-call check of one identifier whose object is in the map, with
\* a mark that is dropped (a slip: `loggedErrors[errorObj] = &pos` left out)
LogIdentNoMark(errorObj, pos, st) ==
    IF st.m[errorObj] # Nil
    THEN [st EXCEPT !.d = Append(@, Report(pos, LoggedTwice, st.m[errorObj]))]
    ELSE st

\* the logger-call check of one identifier whose object is in the map: it is
\* reported when already logged and marked as logged at pos otherwise
LogIdent(errorObj, pos, st) ==
    IF st.m[errorObj] # Nil
    THEN [st EXCEPT !.d = Append(@, Report(pos, LoggedTwice, st.m[errorObj]))]
    ELSE [st EXCEPT !.m = (errorObj :> pos) @@ st.m]

\* case *ast.CallExpr on the logger: the identifiers of the call in order
RECURSIVE InspectLog(_, _, _, _, _)
InspectLog(refs, k, b, n, st) ==
    IF k > Len(refs) THEN st
    ELSE LET errorObj == ObjectFor(refs[k])
         IN IF errorObj = NilObj \/ errorObj \notin DOMAIN st.m
            THEN InspectLog(refs, k + 1, b, n, st)
            ELSE InspectLog(refs, k + 1, b, n, LogIdent(errorObj, <<b, n, k>>, st))

\* the return check of one identifier, reported at the place of the logger
\* call (a slip: logPos given to Reportf in place of ident.Pos())
ReturnIdentAtLog(errorObj, pos, st) ==
    IF errorObj \in DOMAIN st.m /\ st.m[errorObj] # Nil
    THEN [st EXCEPT !.d = Append(@, Report(st.m[errorObj], LoggedAndReturned,
                                            st.m[errorObj]))]
    ELSE st

\* the return check of one identifier that takes every assigned symbol for
\* a logged one (a slip: `logPos != nil` left out)
ReturnIdentAlways(errorObj, pos, st) ==
    IF errorObj \in DOMAIN st.m
    THEN [st EXCEPT !.d = Append(@, Report(pos, LoggedAndReturned, st.m[errorObj]))]
    ELSE st

\* the return check of one identifier: `if logPos := loggedErrors[errorObj];
\* logPos != nil` reports at the identifier
ReturnIdent(errorObj, pos, st) ==
    IF errorObj \in DOMAIN st.m /\ st.m[errorObj] # Nil
    THEN [st EXCEPT !.d = Append(@, Report(pos, LoggedAndReturned, st.m[errorObj]))]
    ELSE st

\* case *ast.ReturnStmt: the results at the error positions are checked
RECURSIVE InspectReturn(_, _, _, _, _)
InspectReturn(refs, indices, b, n, st) ==
    IF indices = <<>> THEN st
    ELSE LET idx == Head(indices)
             errorObj == IF idx >= Len(refs) THEN NilObj ELSE ObjectFor(refs[idx + 1])
         IN IF errorObj # NilObj
            THEN InspectReturn(refs, Tail(indices), b, n,
                               ReturnIdent(errorObj, <<b, n, idx + 1>>, st))
            ELSE InspectReturn(refs, Tail(indices), b, n, st)

InspectNode(node, errorReturnIndices, b, n, m) ==
    LET st == [m |-> m, d |-> <<>>]
    IN CASE node.kind = "assign" -> InspectAssign(node.refs, 1, st)
         [] node.kind = "log" -> InspectLog(node.refs, 1, b, n, st)
         [] node.kind = "return" -> InspectReturn(node.refs, errorReturnIndices, b, n, st)
         [] OTHER -> st

---------------------------------------------------------------------------
(* _checkBlockForLogsAndReturns as a stack machine.  A frame is one call:  *)
(* block, the reference m of its loggedErrors map, the index n of the next *)
(* node to inspect, the index i of the next successor, and (history) exit: *)
(* the value of the map when the last inspected node was done.             *)

Frame(block, m, val) == [block |-> block, m |-> m, n |-> 1, i |-> 1, exit |-> val]

Top == stack[Len(stack)]

Edge(frame) == <<frame.block, cfg[frame.block].Succs[frame.i]>>

\* the depth the recursion can reach when every edge is entered at most
\* twice; deeper than that the model does not follow a walk
MaxDepth == 2 * SumSeq([b \in 1 .. Cardinality(DOMAIN cfg) |-> Len(cfg[b - 1].Succs)]) + 1

\* forChild without the copy (a slip: the map handed to every successor)
NeverCopies(i, nsuccs) == FALSE

\* forChild: a copy for every successor but the last
CopiesForChild(i, nsuccs) == i < nsuccs

\* an edge limit that is one too low (a slip: `times > 0`): no edge is
\* entered a second time
EdgeLimitOnce == 1 - 1

\* an edge limit that is one too high (a slip: `times > 2`)
EdgeLimitOff == 1 + 1

\* the edge counter above which an edge is not traversed again
EdgeLimit == 1

\* an edge test that never ends the retracing (a slip: the test left out)
NeverExhausted(times) == FALSE

\* `if times > 1`: the edge need not be retraced
Exhausted(times) == times > EdgeLimit

\* the edge counters of the previous run kept (a slip: a package-level map)
StaleTraversedPaths == traversedPaths

\* make(map[[2]int32]int) in _lintLogOrReturnErrors
NewTraversedPaths == <<>>

\* a walk that looks at dead blocks too (a slip: the test left out)
NothingUnreachable(block) == FALSE

\* `!block.Live`
Unreachable(block) == ~cfg[block].Live

\* `if !block.Live { return }`
DeadBlock ==
    /\ analyzer = "log"
    /\ stack # <<>>
    /\ Unreachable(Top.block)
    /\ stack' = SubSeq(stack, 1, Len(stack) - 1)
    /\ UNCHANGED <<unitVars, analyzer, sig, cfg, heap, traversedPaths, diags, run, firstDiags, httpVars>>

\* one round of `for _, blockNode := range block.Nodes`
ScanNode ==
    /\ analyzer = "log"
    /\ stack # <<>>
    /\ ~Unreachable(Top.block)
    /\ Top.n <= Len(cfg[Top.block].Nodes)
    /\ LET f == Top
           r == InspectNode(cfg[f.block].Nodes[f.n], _errorResultIndices(sig),
                            f.block, f.n, heap[f.m])
       IN /\ heap' = [heap EXCEPT ![f.m] = r.m]
          /\ diags' = diags \o r.d
          /\ stack' = [stack EXCEPT ![Len(stack)] =
                          [f EXCEPT !.n = f.n + 1, !.exit = r.m]]
    /\ UNCHANGED <<unitVars, analyzer, sig, cfg, traversedPaths, run, firstDiags, httpVars>>

AtSuccs ==
    /\ analyzer = "log"
    /\ stack # <<>>
    /\ ~Unreachable(Top.block)
    /\ Top.n > Len(cfg[Top.block].Nodes)

\* `if times > 1 { continue }`
SkipEdge ==
    /\ AtSuccs
    /\ Top.i <= Len(cfg[Top.block].Succs)
    /\ Edge(Top) \in DOMAIN traversedPaths
    /\ Exhausted(traversedPaths[Edge(Top)])
    /\ stack' = [stack EXCEPT ![Len(stack)].i = @ + 1]
    /\ UNCHANGED <<unitVars, analyzer, sig, cfg, heap, traversedPaths, diags, run, firstDiags, httpVars>>

\* count the edge and call _checkBlockForLogsAndReturns on the successor
TraverseEdge ==
    /\ AtSuccs
    /\ Top.i <= Len(cfg[Top.block].Succs)
    /\ Len(stack) < MaxDepth
    /\ LET f == Top
           e == Edge(f)
           succ == cfg[f.block].Succs[f.i]
           copy == CopiesForChild(f.i, Len(cfg[f.block].Succs))
           forChild == IF copy THEN Len(heap) + 1 ELSE f.m
       IN /\ IF e \in DOMAIN traversedPaths
             THEN /\ ~Exhausted(traversedPaths[e])
                  /\ traversedPaths' = [traversedPaths EXCEPT ![e] = @ + 1]
             ELSE traversedPaths' = (e :> 1) @@ traversedPaths
          /\ heap' = IF copy THEN Append(heap, heap[f.m]) ELSE heap
          /\ stack' = Append([stack EXCEPT ![Len(stack)].i = @ + 1],
                             Frame(succ, forChild, heap[f.m]))
    /\ UNCHANGED <<unitVars, analyzer, sig, cfg, diags, run, firstDiags, httpVars>>

\* the successor loop is over: the call returns
ReturnFromBlock ==
    /\ AtSuccs
    /\ Top.i > Len(cfg[Top.block].Succs)
    /\ stack' = SubSeq(stack, 1, Len(stack) - 1)
    /\ UNCHANGED <<unitVars, analyzer, sig, cfg, heap, traversedPaths, diags, run, firstDiags, httpVars>>

\* _lintLogOrReturnErrors is called again on the same function
RerunLog ==
    /\ analyzer = "log"
    /\ stack = <<>>
    /\ run = 1
    /\ run' = 2
    /\ firstDiags' = diags
    /\ diags' = <<>>
    /\ heap' = <<<<>>>>
    /\ traversedPaths' = NewTraversedPaths
    /\ stack' = <<Frame(0, 1, <<>>)>>
    /\ UNCHANGED <<unitVars, analyzer, sig, cfg, httpVars>>

NextLog == DeadBlock \/ ScanNode \/ SkipEdge \/ TraverseEdge \/ ReturnFromBlock \/ RerunLog

\* the state in which _lintLogOrReturnErrors has called the walk on Blocks[0]
StartLog ==
    /\ analyzer = "log"
    /\ stack = <<Frame(0, 1, <<>>)>>
    /\ heap = <<<<>>>>
    /\ traversedPaths = <<>>
    /\ diags = <<>>
    /\ run = 1
    /\ firstDiags = <<>>
    /\ hblock = 0
    /\ hnode = 1
    /\ mustReturn = NoCall
    /\ NoUnit

---------------------------------------------------------------------------
(* httpreturn: _checkCFG scans every live block of cfg.Blocks in order *)

MustReturnMsg == "HTTP handlers (or helpers) must return after calling"

\* the targets without http.Error (a slip: a case left out of the switch)
RedirectOnly == {"net/http.Redirect"}

\* the targets with the logger among them (a slip: a case too many)
WithLogger == {"net/http.Error", "net/http.Redirect", "log"}

\* `case "net/http.Error", "net/http.Redirect"`
MustReturnTargets == {"net/http.Error", "net/http.Redirect"}

\* lintutil.NameOf(lintutil.ObjectFor(ident)): the qualified name of the object
NameOf(ident) == IF ObjectFor(ident) = NilObj THEN "" ELSE ident

\* _mustReturnAfter: the last identifier of the node that names a target
RECURSIVE MustReturnFrom(_, _, _, _, _)
MustReturnFrom(refs, k, b, n, ret) ==
    IF k > Len(refs) THEN ret
    ELSE IF NameOf(refs[k]) \in MustReturnTargets
         THEN MustReturnFrom(refs, k + 1, b, n, [pos |-> <<b, n, k>>, name |-> NameOf(refs[k])])
         ELSE MustReturnFrom(refs, k + 1, b, n, ret)

\* a call that stays owed until a return (a slip: mustReturn kept when the
\* node holds no target)
MustReturnSticky(node, b, n) ==
    LET ret == MustReturnFrom(node.refs, 1, b, n, NoCall)
    IN IF ret = NoCall /\ node.kind # "return" THEN mustReturn ELSE ret

_mustReturnAfter(node, b, n) == MustReturnFrom(node.refs, 1, b, n, NoCall)

\* the report closure of _checkCFG
ReportMustReturn(ident) == Report(ident.pos, MustReturnMsg, ident.name)

NumBlocks == Cardinality(DOMAIN cfg)

\* `if !block.Live { continue }`
HTTPDeadBlock ==
    /\ analyzer = "http"
    /\ hblock < NumBlocks
    /\ ~cfg[hblock].Live
    /\ hblock' = hblock + 1
    /\ UNCHANGED <<unitVars, analyzer, sig, cfg, logVars, diags, run, firstDiags, hnode, mustReturn>>

\* one round of `for _, node := range block.Nodes`
HTTPNode ==
    /\ analyzer = "http"
    /\ hblock < NumBlocks
    /\ cfg[hblock].Live
    /\ hnode <= Len(cfg[hblock].Nodes)
    /\ LET node == cfg[hblock].Nodes[hnode]
           isReturn == node.kind = "return"
       IN /\ diags' = IF mustReturn # NoCall /\ ~isReturn
                       THEN Append(diags, ReportMustReturn(mustReturn))
                       ELSE diags
          /\ mustReturn' = _mustReturnAfter(node, hblock, hnode)
    /\ hnode' = hnode + 1
    /\ UNCHANGED <<unitVars, analyzer, sig, cfg, logVars, run, firstDiags, hblock>>

\* the owed return kept for the next block (a slip: the variable declared
\* outside the block loop)
CarriedMustReturn == mustReturn

\* `var mustReturn *ast.Ident` inside the block loop: nil for every block
FreshMustReturn == NoCall

\* an end-of-block test that lets a leading return of the successors count
\* (a slip: the allowance the code leaves out)
UnlessReturnFollows(succs) ==
    \E k \in 1 .. Len(succs) :
        \/ cfg[succs[k]].Nodes = <<>>
        \/ cfg[succs[k]].Nodes[1].kind # "return"

\* `len(block.Succs) > 0`
HasSuccs(succs) == Len(succs) > 0

\* the end of the block: complain if its last statement needed a return
HTTPEndBlock ==
    /\ analyzer = "http"
    /\ hblock < NumBlocks
    /\ cfg[hblock].Live
    /\ hnode > Len(cfg[hblock].Nodes)
    /\ diags' = IF mustReturn # NoCall /\ HasSuccs(cfg[hblock].Succs)
                 THEN Append(diags, ReportMustReturn(mustReturn))
                 ELSE diags
    /\ hblock' = hblock + 1
    /\ hnode' = 1
    /\ mustReturn' = FreshMustReturn
    /\ UNCHANGED <<unitVars, analyzer, sig, cfg, logVars, run, firstDiags>>

\* _checkCFG is called again on the same function
RerunHTTP ==
    /\ analyzer = "http"
    /\ hblock = NumBlocks
    /\ run = 1
    /\ run' = 2
    /\ firstDiags' = diags
    /\ diags' = <<>>
    /\ hblock' = 0
    /\ hnode' = 1
    /\ mustReturn' = NoCall
    /\ UNCHANGED <<unitVars, analyzer, sig, cfg, logVars>>

NextHTTP == HTTPDeadBlock \/ HTTPNode \/ HTTPEndBlock \/ RerunHTTP

\* the state in which _runHTTPReturn has called _checkCFG
StartHTTP ==
    /\ analyzer = "http"
    /\ stack = <<>>
    /\ heap = <<>>
    /\ traversedPaths = <<>>
    /\ diags = <<>>
    /\ run = 1
    /\ firstDiags = <<>>
    /\ hblock = 0
    /\ hnode = 1
    /\ mustReturn = NoCall
    /\ NoUnit

---------------------------------------------------------------------------
(* Facts.  A fact-using pass runs over the declarations of one package in  *)
(* file order.  A declaration is [names, directive, resolver, idents,      *)
(* closer, nodes]: the identifiers it declares, whether its doc comment    *)
(* holds //ka:permission-check, whether _findResolvers selects it, the     *)
(* identifiers of its body, the number of //ka:closer lines of its doc     *)
(* comment, and the nodes of the function that _scanFuncDecl looks at, in  *)
(* the order ast.Inspect visits them.                                      *)

IsPermissionChecker == "_isPermissionChecker"
IsCloser == "_isCloser"

\* pass.TypesInfo.ObjectOf
ObjectOf(ident) == ObjectFor(ident)

\* a store that drops the fact when it is asserted again (a slip: the entry
\* toggled)
ExportToggles(fs, obj, fact) ==
    IF <<obj, fact>> \in fs THEN fs \ {<<obj, fact>>} ELSE fs \cup {<<obj, fact>>}

\* pass.ExportObjectFact
ExportObjectFact(fs, obj, fact) == fs \cup {<<obj, fact>>}

\* pass.ImportObjectFact
ImportObjectFact(fs, obj, fact) == <<obj, fact>> \in fs

Query(obj, fact, by, result) == [obj |-> obj, fact |-> fact, by |-> by, result |-> result]

\* the _mark closure of _markPermissionCheckers over the names of a declaration
RECURSIVE MarkNames(_, _)
MarkNames(names, fs) ==
    IF names = <<>> THEN fs
    ELSE LET obj == ObjectOf(Head(names))
         IN MarkNames(Tail(names),
                      IF obj # NilObj
                      THEN ExportObjectFact(fs, obj, IsPermissionChecker)
                      ELSE fs)

\* _findResolvers: the indices of the resolver methods, in file order
RECURSIVE ResolversFrom(_, _)
ResolversFrom(decls, k) ==
    IF k > Len(decls) THEN <<>>
    ELSE IF decls[k].resolver
         THEN <<k>> \o ResolversFrom(decls, k + 1)
         ELSE ResolversFrom(decls, k + 1)

_findResolvers(decls) == ResolversFrom(decls, 1)

\* the identifiers of a resolver's body that resolve to an object
Resolved(idents) == {ObjectOf(idents[k]) : k \in 1 .. Len(idents)} \ {NilObj}

\* _hasPermissionCheck: some identifier of the body has the fact
_hasPermissionCheck(fs, decl) ==
    \E obj \in Resolved(decl.idents) : ImportObjectFact(fs, obj, IsPermissionChecker)

NoCheckMsg == "resolver has no permission check"

\* the marking walk that stops behind the first declaration (a slip: the
\* walk left at the first hit)
MarkingStopsEarly(k) == TRUE

\* `for _, file := range pass.Files { ast.Inspect(file, ..) }` is over
MarkingOver(k) == k = Len(unit)

\* where the pass goes when the marking walk is over
AfterMarking ==
    IF analyzer = "perm"
    THEN IF _findResolvers(unit) = <<>> THEN "done" ELSE "check"
    ELSE "collect"

\* one declaration of the walk of _markPermissionCheckers
PermMark ==
    /\ analyzer = "perm"
    /\ phase = "mark"
    /\ facts' = IF unit[di].directive THEN MarkNames(unit[di].names, facts) ELSE facts
    /\ IF MarkingOver(di)
       THEN phase' = AfterMarking /\ di' = 1
       ELSE phase' = phase /\ di' = di + 1
    /\ UNCHANGED <<analyzer, driverVars, flowVars, diags, unit, queries, ni, closables>>

\* one round of `for _, resolver := range resolvers` in _runPermissions
PermCheck ==
    /\ analyzer = "perm"
    /\ phase = "check"
    /\ LET at == _findResolvers(unit)[di]
           decl == unit[at]
       IN /\ queries' = queries \cup
                {Query(obj, IsPermissionChecker, at,
                       ImportObjectFact(facts, obj, IsPermissionChecker)) :
                    obj \in Resolved(decl.idents)}
          /\ diags' = IF ~_hasPermissionCheck(facts, decl)
                      THEN Append(diags, Report(<<at, 0, 0>>, NoCheckMsg, decl.names[1]))
                      ELSE diags
    /\ IF di = Len(_findResolvers(unit))
       THEN phase' = "done" /\ di' = 1
       ELSE phase' = phase /\ di' = di + 1
    /\ UNCHANGED <<analyzer, driverVars, flowVars, unit, facts, ni, closables>>

NextPerm == PermMark \/ PermCheck

\* the state in which _runPermissions starts on the package
StartPerm ==
    /\ analyzer = "perm"
    /\ facts = {}
    /\ queries = {}
    /\ phase = "mark"
    /\ di = 1
    /\ ni = 1
    /\ closables = <<>>
    /\ diags = <<>>

\* no pass over a control-flow graph runs
NoFlow ==
    /\ sig = <<>>
    /\ cfg = <<>>
    /\ stack = <<>>
    /\ heap = <<>>
    /\ traversedPaths = <<>>
    /\ run = 1
    /\ firstDiags = <<>>
    /\ hblock = 0
    /\ hnode = 1
    /\ mustReturn = NoCall

---------------------------------------------------------------------------
(* always_close.  An expression is [form, recv, name]: an identifier       *)
(* (recv is NoIdent), a selector recv.name, a call of either, one of       *)
(* &x, *x, (x), a key: x pair, a type assertion x.(T), or a literal.  A    *)
(* node is [kind, lhs, rhs, fun, args]; the elements of a composite        *)
(* literal are its rhs.                                                    *)

Ident(name) == [form |-> "ident", recv |-> NoIdent, name |-> name]
Sel(recv, name) == [form |-> "sel", recv |-> recv, name |-> name]
CallOf(fun) ==
    [form |-> IF fun.form = "sel" THEN "selcall" ELSE "call", recv |-> fun.recv, name |-> fun.name]
Unary(name) == [form |-> "unary", recv |-> NoIdent, name |-> name]
KeyValue(name) == [form |-> "kv", recv |-> NoIdent, name |-> name]
TypeAssert(name) == [form |-> "assert", recv |-> NoIdent, name |-> name]
NoExpr == [form |-> "nil", recv |-> NoIdent, name |-> NoIdent]

Assign(lhs, rhs) == [kind |-> "assign", lhs |-> lhs, rhs |-> rhs, fun |-> NoExpr, args |-> <<>>]
Call(fun, args) == [kind |-> "call", lhs |-> <<>>, rhs |-> <<>>, fun |-> fun, args |-> args]
Composite(elts) == [kind |-> "composite", lhs |-> <<>>, rhs |-> elts, fun |-> NoExpr, args |-> <<>>]
Return(results) == [kind |-> "return", lhs |-> <<>>, rhs |-> results, fun |-> NoExpr, args |-> <<>>]
\* an *ast.IfStmt: ast.Inspect comes to it and goes on into its arms, whose
\* nodes follow it in the list
IfStmt == [kind |-> "if", lhs |-> <<>>, rhs |-> <<>>, fun |-> NoExpr, args |-> <<>>]

\* the objects whose type implements io.Closer or has a Close method
Closable == {"f", "g"}

_isClosable(obj) == obj \in Closable

\* the right-hand side for variable i is a call of a No-Op closer maker
_assignedFromNoOp(rhs, i) ==
    LET from == IF Len(rhs) = 1 THEN rhs[1] ELSE rhs[i]
    IN \/ from.form = "assert"
       \/ from.form = "selcall" /\ from.name = "NopCloser"

\* an unwrapping that knows plain identifiers only (a slip: the cases for
\* &x, *x, (x), selectors, calls and key: x left out)
PlainIdentOnly(expr) == IF expr.form = "ident" THEN expr.name ELSE NoIdent

\* _identFromExpression: the identifier an expression stands for, or NoIdent
_identFromExpression(expr) ==
    IF expr.form \in {"ident", "sel", "unary", "call", "selcall", "kv"}
    THEN expr.name
    ELSE NoIdent

\* lintutil.ObjectFor of an expression
ExprObject(expr) ==
    IF expr.form \in {"ident", "sel"} THEN ObjectFor(expr.name) ELSE NilObj

Remove(m, obj) == [o \in DOMAIN m \ {obj} |-> m[o]]

RECURSIVE DeleteAll(_, _)
DeleteAll(m, objs) ==
    IF objs = <<>> THEN m ELSE DeleteAll(Remove(m, Head(objs)), Tail(objs))

Put(m, obj, pos) == [o \in DOMAIN m \cup {obj} |-> IF o = obj THEN pos ELSE m[o]]

\* the first ast.Inspect of _scanFuncDecl on an assignment
RECURSIVE CollectFrom(_, _, _, _, _)
CollectFrom(node, i, d, n, m) ==
    IF i > Len(node.lhs) THEN m
    ELSE LET variable == node.lhs[i]
             obj == ExprObject(variable)
         IN CollectFrom(node, i + 1, d, n,
                IF /\ variable.form = "ident"
                   /\ _isClosable(obj)
                   /\ ~_assignedFromNoOp(node.rhs, i)
                THEN Put(m, obj, <<d, n, i>>)
                ELSE m)

\* _isCallToCloser asks for the fact of the called function
CloserQueried(node) == _identFromExpression(node.fun) # NoIdent

CalledObject(node) == ObjectFor(_identFromExpression(node.fun))

\* a tracker that takes no call for a call of a closer (a slip: the fact
\* asked for under a name nobody exports)
NoCallCloses(fs, node) == FALSE

\* a tracker that takes every call with arguments for a release (a slip: the
\* fact of the called function not asked for)
AnyCallCloses(fs, node) == _identFromExpression(node.fun) # NoIdent

_isCallToCloser(fs, node) ==
    /\ CloserQueried(node)
    /\ ImportObjectFact(fs, CalledObject(node), IsCloser)

\* the objects an expression list hands on
Handed(exprs) == [k \in 1 .. Len(exprs) |-> ObjectFor(_identFromExpression(exprs[k]))]

\* a walk that cancels what was acquired before the node only (a slip: the
\* collection and the verification done in one walk)
VerifyAcquiredBefore(fs, node, m) ==
    LET before == {obj \in DOMAIN m : m[obj][2] < ni}
        seen == [obj \in before |-> m[obj]]
        later == [obj \in (DOMAIN m) \ before |-> m[obj]]
        left == IF node.kind = "call"
                THEN IF _isCallToCloser(fs, node)
                     THEN DeleteAll(seen, [k \in 1 .. Len(node.args) |-> ExprObject(node.args[k])])
                     ELSE IF node.fun.form = "sel" /\ node.fun.name = "Close"
                          THEN Remove(seen, ObjectFor(node.fun.recv))
                          ELSE seen
                ELSE IF node.kind \in {"assign", "composite", "return"}
                     THEN DeleteAll(seen, Handed(node.rhs))
                     ELSE seen
    IN left @@ later

\* the second ast.Inspect of _scanFuncDecl on one node
VerifyOn(fs, node, m) ==
    IF node.kind = "call"
    THEN IF _isCallToCloser(fs, node)
         THEN DeleteAll(m, [k \in 1 .. Len(node.args) |-> ExprObject(node.args[k])])
         ELSE IF node.fun.form = "sel" /\ node.fun.name = "Close"
              THEN Remove(m, ObjectFor(node.fun.recv))
              ELSE m
    ELSE IF node.kind \in {"assign", "composite", "return"}
         THEN DeleteAll(m, Handed(node.rhs))
         ELSE m

NeedsCloseMsg == "needs to be closed"

\* the closables the report loop has not come to yet
Pending == {obj \in DOMAIN closables : \A k \in 1 .. Len(diags) : diags[k].pos # closables[obj]}

\* the map of the declaration before kept (a slip: one map for the package)
KeptClosables == closables

\* `closables := make(map[types.Object]ast.Node)` at the top of _scanFuncDecl
NewClosables == <<>>

\* _scanFuncDecl is over for declaration di
NextDecl ==
    IF di = Len(unit)
    THEN phase' = "done" /\ di' = 1 /\ ni' = 1 /\ closables' = <<>>
    ELSE phase' = "collect" /\ di' = di + 1 /\ ni' = 1 /\ closables' = NewClosables

\* `for _, doc := range funcDecl.Doc.List`, n lines with the directive left
RECURSIVE ExportPerLine(_, _, _)
ExportPerLine(fs, obj, n) ==
    IF n = 0 THEN fs
    ELSE ExportPerLine(ExportObjectFact(fs, obj, IsCloser), obj, n - 1)

\* _maybeMarkFunctionAsCloser on one declaration of _scanForClosingFunctions
CloseMark ==
    /\ analyzer = "close"
    /\ phase = "mark"
    /\ LET obj == ObjectFor(unit[di].names[1])
       IN IF unit[di].closer > 0 /\ obj = NilObj
          THEN facts' = facts /\ phase' = "panic" /\ di' = di
          ELSE /\ facts' = ExportPerLine(facts, obj, unit[di].closer)
               /\ IF MarkingOver(di)
                  THEN phase' = AfterMarking /\ di' = 1
                  ELSE phase' = phase /\ di' = di + 1
    /\ UNCHANGED <<analyzer, driverVars, flowVars, diags, unit, queries, ni, closables>>

\* one node of the first walk
CollectNode ==
    /\ analyzer = "close"
    /\ phase = "collect"
    /\ ni <= Len(unit[di].nodes)
    /\ closables' = IF unit[di].nodes[ni].kind = "assign"
                    THEN CollectFrom(unit[di].nodes[ni], 1, di, ni, closables)
                    ELSE closables
    /\ ni' = ni + 1
    /\ UNCHANGED <<analyzer, driverVars, flowVars, diags, unit, facts, queries, phase, di>>

\* `if len(closables) == 0 { return }`
CollectEnd ==
    /\ analyzer = "close"
    /\ phase = "collect"
    /\ ni > Len(unit[di].nodes)
    /\ IF DOMAIN closables = {}
       THEN NextDecl
       ELSE phase' = "verify" /\ ni' = 1 /\ UNCHANGED <<di, closables>>
    /\ UNCHANGED <<analyzer, driverVars, flowVars, diags, unit, facts, queries>>

\* one node of the second walk
VerifyNode ==
    /\ analyzer = "close"
    /\ phase = "verify"
    /\ ni <= Len(unit[di].nodes)
    /\ LET node == unit[di].nodes[ni]
       IN IF node.kind = "call" /\ CloserQueried(node) /\ CalledObject(node) = NilObj
          THEN /\ phase' = "panic"
               /\ UNCHANGED <<queries, closables, ni>>
          ELSE /\ queries' = IF node.kind = "call" /\ CloserQueried(node)
                             THEN queries \cup
                                  {Query(CalledObject(node), IsCloser, di,
                                         ImportObjectFact(facts, CalledObject(node), IsCloser))}
                             ELSE queries
               /\ closables' = VerifyOn(facts, node, closables)
               /\ ni' = ni + 1
               /\ phase' = phase
    /\ UNCHANGED <<analyzer, driverVars, flowVars, diags, unit, facts, di>>

VerifyEnd ==
    /\ analyzer = "close"
    /\ phase = "verify"
    /\ ni > Len(unit[di].nodes)
    /\ phase' = "report"
    /\ UNCHANGED <<analyzer, driverVars, flowVars, diags, unit, facts, queries, di, ni, closables>>

\* one round of `for obj, pos := range closables`, in the order of the map
ReportUnclosed ==
    /\ analyzer = "close"
    /\ phase = "report"
    /\ \E obj \in Pending :
          diags' = Append(diags, Report(closables[obj], NeedsCloseMsg, obj))
    /\ UNCHANGED <<analyzer, driverVars, flowVars, unit, facts, queries, phase, di, ni, closables>>

ReportEnd ==
    /\ analyzer = "close"
    /\ phase = "report"
    /\ Pending = {}
    /\ NextDecl
    /\ UNCHANGED <<analyzer, driverVars, flowVars, diags, unit, facts, queries>>

NextClose ==
    \/ CloseMark
    \/ CollectNode
    \/ CollectEnd
    \/ VerifyNode
    \/ VerifyEnd
    \/ ReportUnclosed
    \/ ReportEnd

\* _runAlwaysClose is run on the same package a second time
RerunClose ==
    /\ analyzer = "close"
    /\ phase = "done"
    /\ run = 1
    /\ run' = 2
    /\ firstDiags' = diags
    /\ diags' = <<>>
    /\ facts' = {}
    /\ queries' = {}
    /\ phase' = "mark"
    /\ di' = 1
    /\ ni' = 1
    /\ closables' = <<>>
    /\ UNCHANGED <<analyzer, driverVars, unit, sig, cfg, logVars, httpVars>>

\* the state in which _runAlwaysClose starts on the package
StartClose ==
    /\ analyzer = "close"
    /\ facts = {}
    /\ queries = {}
    /\ phase = "mark"
    /\ di = 1
    /\ ni = 1
    /\ closables = <<>>
    /\ diags = <<>>

---------------------------------------------------------------------------
(* Function bodies *)

\* the graph of `for c {..}; ..`: entry, loop header, loop body, exit
ForShape == <<<<1>>, <<2, 3>>, <<1>>, <<>>>>

\* the graphs the CFG builder makes of a straight body, of `if c {..}; ..`,
\* of `if c {..; return}; ..` and of `for c {..}; ..`
Shapes == {
    <<<<>>>>,
    <<<<1, 2>>, <<2>>, <<>>>>,
    <<<<1, 2>>, <<>>, <<>>>>,
    ForShape }

\* numbers of nodes per block, at most MaxNodes in all
LenVectors(nblocks) ==
    {lens \in [1 .. nblocks -> 0 .. MaxNodes] :
        SumSeq(lens) <= MaxNodes}

Offset(lens, b) == SumSeq(SubSeq(lens, 1, b - 1))

\* liveness flags as the CFG provider hands them over: the entry block is
\* live and at most one other block is flagged dead
LiveFlags(nblocks) ==
    {[b \in 1 .. nblocks |-> b # dead] : dead \in {0} \cup 2 .. nblocks}

Build(shape, lens, flat, live) ==
    [b \in 0 .. Len(shape) - 1 |->
        [Live |-> live[b + 1],
         Nodes |-> [k \in 1 .. lens[b + 1] |-> flat[Offset(lens, b + 1) + k]],
         Succs |-> shape[b + 1]]]

\* the builder ends a block at a return statement and gives it no successor
ReturnEndsBlock(g) ==
    \A b \in DOMAIN g :
        \A k \in 1 .. Len(g[b].Nodes) :
            g[b].Nodes[k].kind = "return" =>
                k = Len(g[b].Nodes) /\ g[b].Succs = <<>>

\* a dead block is given no nodes: what it holds is never looked at
DeadBlocksEmpty(g) == \A b \in DOMAIN g : ~g[b].Live => g[b].Nodes = <<>>

\* cfg is the graph of a function body over the given statements
IsBody(alphabet) ==
    \E shape \in Shapes :
      \E lens \in LenVectors(Len(shape)), live \in LiveFlags(Len(shape)) :
        \E flat \in [1 .. SumSeq(lens) -> alphabet] :
           /\ cfg = Build(shape, lens, flat, live)
           /\ ReturnEndsBlock(cfg)
           /\ DeadBlocksEmpty(cfg)

LogAlphabet == {AssignErr, LogErr, ReturnErr}

HTTPAlphabet == {HTTPError, LogX, ReturnStmt}

InitLog ==
    /\ sig = <<ErrorField>>
    /\ IsBody(LogAlphabet)
    /\ StartLog

InitHTTP ==
    /\ sig = <<>>
    /\ IsBody(HTTPAlphabet)
    /\ StartHTTP

\* the successor lists of a block: none, one (a jump) or two (the branches
\* of a condition), each to any block
SuccLists(blocks) ==
    {<<>>} \cup {<<a>> : a \in blocks} \cup {<<a, b>> : a, b \in blocks}

\* every graph of MaxBlocks blocks with any successor lists and any liveness
\* flags; every block assigns err or logs it
Graphs ==
    {[b \in 0 .. MaxBlocks - 1 |->
        [Live |-> live[b],
         Nodes |-> IF b = 0 THEN <<AssignErr>> ELSE <<LogErr>>,
         Succs |-> succs[b]]] :
      live \in [0 .. MaxBlocks - 1 -> BOOLEAN],
      succs \in [0 .. MaxBlocks - 1 -> SuccLists(0 .. MaxBlocks - 1)]}

InitGraph ==
    /\ sig = <<ErrorField>>
    /\ cfg \in Graphs
    /\ StartLog

\* the graph of `err := doX(); if c1 { A } else { B }; if c2 { } ...; S`
\* with k conditionals: block 0 branches to 1 and 2, which join in 3; every
\* further conditional is a block 2j-1 that branches to its body 2j and to
\* the join 2j+1; the last join, 2k+1, holds S
IfChainSuccs(b, k) ==
    IF b = 0 THEN <<1, 2>>
    ELSE IF b \in {1, 2} THEN <<3>>
    ELSE IF b = 2 * k + 1 THEN <<>>
    ELSE IF b % 2 = 1 THEN <<b + 1, b + 2>>
    ELSE <<b + 1>>

IfChain(k, logAt, last, dead) ==
    [b \in 0 .. 2 * k + 1 |->
        [Live |-> b # dead,
         Nodes |-> IF b = 0 THEN <<AssignErr>>
                   ELSE IF b = logAt THEN <<LogErr>>
                   ELSE IF b = 2 * k + 1 THEN <<last>>
                   ELSE <<>>,
         Succs |-> IfChainSuccs(b, k)]]

\* one to MaxIfs conditionals, the logger call in one branch of the first,
\* a return or a logger call behind the last, at most one dead body
InitJoins ==
    /\ sig = <<ErrorField>>
    /\ \E k \in 1 .. MaxIfs, logAt \in {1, 2}, last \in {ReturnErr, LogErr} :
          \E dead \in {-1} \cup ({1, 2} \ {logAt}) \cup {2 * j : j \in 2 .. k} :
              cfg = IfChain(k, logAt, last, dead)
    /\ StartLog

\* the walk over conditionals in a row
SpecJoins == InitJoins /\ [][NextLog]_vars

\* the result lists of up to MaxFields fields: every field is named or none
\* is, a named field declares up to MaxNames names
Signatures ==
    UNION {[1 .. l -> [type : {"error", "other"}, names : {0}]] \cup
           [1 .. l -> [type : {"error", "other"}, names : 1 .. MaxNames]] :
            l \in 0 .. MaxFields}

\* the number of results of a signature
RECURSIVE Width(_)
Width(results) ==
    IF results = <<>> THEN 0
    ELSE (IF Head(results).names > 0 THEN Head(results).names ELSE 1) + Width(Tail(results))

\* `err := doX(); logger.Warn(err); for c { }; return r1, .., rn`: block 0
\* assigns and logs, block 1 is the loop condition, block 2 the loop body,
\* block 3 the return; every result names err or another symbol
SigBody(results, bodyLive) ==
    (0 :> [Live |-> TRUE, Nodes |-> <<AssignErr, LogErr>>, Succs |-> <<1>>])
        @@ (1 :> [Live |-> TRUE, Nodes |-> <<>>, Succs |-> <<2, 3>>])
        @@ (2 :> [Live |-> bodyLive, Nodes |-> <<>>, Succs |-> <<1>>])
        @@ (3 :> [Live |-> TRUE, Nodes |-> <<[kind |-> "return", refs |-> results]>>,
                  Succs |-> <<>>])

InitSig ==
    /\ sig \in Signatures
    /\ \E results \in [1 .. Width(sig) -> {"err", "x"}], bodyLive \in BOOLEAN :
          cfg = SigBody(results, bodyLive)
    /\ StartLog

\* the walk over the functions of every small signature
SpecSig == InitSig /\ [][NextLog]_vars

---------------------------------------------------------------------------
(* Packages *)

PermDecl(names, directive, resolver, idents) ==
    [names |-> names, directive |-> directive, resolver |-> resolver,
     idents |-> idents, closer |-> 0, nodes |-> <<>>]

\* //ka:permission-check on a function, and on an interface method or a
\* variable declaration of two names
Checker == PermDecl(<<"checkPerm">>, TRUE, FALSE, <<>>)
CheckerPair == PermDecl(<<"CheckA", "CheckB">>, TRUE, FALSE, <<>>)
\* an unmarked function that calls the checker
Helper == PermDecl(<<"helper">>, FALSE, FALSE, <<"checkPerm">>)
\* resolver methods: one calls checkPerm, one CheckB, one only helper
ResolverGet == PermDecl(<<"Get">>, FALSE, TRUE, <<"ctx", "checkPerm">>)
ResolverList == PermDecl(<<"List">>, FALSE, TRUE, <<"CheckB">>)
ResolverPut == PermDecl(<<"Put">>, FALSE, TRUE, <<"gen", "helper">>)

PermAlphabet == {Checker, CheckerPair, Helper, ResolverGet, ResolverList, ResolverPut}

\* the packages of one to MaxDecls different declarations, in any order
Units(alphabet) ==
    UNION {{u \in [1 .. l -> alphabet] : \A j, k \in 1 .. l : j # k => u[j] # u[k]} :
            l \in 1 .. MaxDecls}

InitPerm ==
    /\ unit \in Units(PermAlphabet)
    /\ StartPerm
    /\ NoFlow
    /\ NoDriver

Init == InitLog \/ InitHTTP

Next == NextLog \/ NextHTTP

Spec == Init /\ [][Next]_vars

CloseDecl(name, closer, nodes) ==
    [names |-> <<name>>, directive |-> FALSE, resolver |-> FALSE,
     idents |-> <<>>, closer |-> closer, nodes |-> nodes]

Open(v) == <<Assign(<<Ident(v)>>, <<CallOf(Ident("open"))>>), Call(Ident("open"), <<>>)>>

\* //ka:closer once, and on two lines of the doc comment
CloserFunc == CloseDecl("closeIt", 1, <<>>)
CloserTwice == CloseDecl("shutdown", 2, <<>>)
\* f := open(); closeIt(f)
UsesCloser == CloseDecl("useCloser", 0, Open("f") \o <<Call(Ident("closeIt"), <<Ident("f")>>)>>)
\* g := open(); pkg.shutdown(g)
UsesShutdown == CloseDecl("useShutdown", 0, Open("g") \o <<Call(Sel("pkg", "shutdown"), <<Ident("g")>>)>>)
\* f := open(); f.Close()
UsesClose == CloseDecl("useClose", 0, Open("f") \o <<Call(Sel("f", "Close"), <<>>)>>)
\* f := open(); g := open(); helper(f)
Leaks == CloseDecl("leak", 0, Open("f") \o Open("g") \o <<Call(Ident("helper"), <<Ident("f")>>)>>)
\* f := open(); return f
HandsOn == CloseDecl("handOn", 0, Open("f") \o <<Return(<<Ident("f")>>)>>)
\* f := io.NopCloser(r); g := open(); w := T{c: g}
Wraps ==
    CloseDecl("wrap", 0,
        <<Assign(<<Ident("f")>>, <<CallOf(Sel("io", "NopCloser"))>>),
          Call(Sel("io", "NopCloser"), <<Ident("r")>>)>>
        \o Open("g")
        \o <<Assign(<<Ident("w")>>, <<[form |-> "lit", recv |-> NoIdent, name |-> NoIdent]>>),
             Composite(<<KeyValue("g")>>)>>)

\* f := open(); f = open()
Reopens == CloseDecl("reopen", 0, Open("f") \o Open("f"))

\* f := open(); h := &f
Aliases == CloseDecl("alias", 0, Open("f") \o <<Assign(<<Ident("h")>>, <<Unary("f")>>)>>)
\* f := open(); return f.(T)
Casts == CloseDecl("cast", 0, Open("f") \o <<Return(<<TypeAssert("f")>>)>>)

\* f := open(); g := open(); if c { f.Close() } else { closeIt(g) }
Branches ==
    CloseDecl("branch", 0,
        Open("f") \o Open("g")
        \o <<IfStmt, Call(Sel("f", "Close"), <<>>), Call(Ident("closeIt"), <<Ident("g")>>)>>)

\* f.Close(); h := &g; f = open(); g = open()
ReleasesFirst ==
    CloseDecl("releaseFirst", 0,
        <<Call(Sel("f", "Close"), <<>>), Assign(<<Ident("h")>>, <<Unary("g")>>)>>
        \o Open("f") \o Open("g"))
\* f = open(); g = open(); f.Close(); h := &g
ReleasesLast ==
    CloseDecl("releaseLast", 0,
        Open("f") \o Open("g")
        \o <<Call(Sel("f", "Close"), <<>>), Assign(<<Ident("h")>>, <<Unary("g")>>)>>)
\* closeIt(f); return g; f = open(); g = open()
ReturnsFirst ==
    CloseDecl("returnFirst", 0,
        <<Call(Ident("closeIt"), <<Ident("f")>>), Return(<<Ident("g")>>)>>
        \o Open("f") \o Open("g"))

CloseAlphabet ==
    {CloserFunc, CloserTwice, UsesCloser, UsesShutdown, UsesClose, Leaks, HandsOn, Wraps,
     Reopens, Aliases, Casts, Branches, ReleasesFirst, ReleasesLast, ReturnsFirst}

InitClose ==
    /\ unit \in Units(CloseAlphabet)
    /\ StartClose
    /\ NoFlow
    /\ NoDriver

InitFacts == InitPerm \/ InitClose

NextFacts == NextPerm \/ NextClose

\* the fact-using passes, each over every small package
SpecFacts == InitFacts /\ [][NextFacts]_vars

---------------------------------------------------------------------------
(* The driver.  Both analyzers declare their fact type in FactTypes, so    *)
(* the go/analysis driver runs the pass on a package after the passes on   *)
(* the packages it imports, and hands it the object facts those passes     *)
(* ended with, less the facts of objects that cannot be seen from outside. *)
(* Packages are numbered so that a package imports lower numbers only.     *)

\* exported package-level functions, and methods
ExportedNames == {"CheckAccess", "CloseAll"}
Methods == {"CheckA", "CheckB", "shutdown", "Get", "List", "Put", "Query"}

Names(decl) == {decl.names[k] : k \in 1 .. Len(decl.names)}

Declared(decls) == UNION {Names(decls[k]) : k \in 1 .. Len(decls)}

\* the names the bodies of a package refer to
Refs(decl) ==
    {decl.idents[k] : k \in 1 .. Len(decl.idents)}
        \cup {decl.nodes[k].fun.name : k \in {j \in 1 .. Len(decl.nodes) : decl.nodes[j].kind = "call"}}

RefsIn(decls) == UNION {Refs(decls[k]) : k \in 1 .. Len(decls)}

\* the packages reachable over imports from the set ps
RECURSIVE Reach(_, _)
Reach(g, ps) ==
    LET more == ps \cup UNION {g[q].imports : q \in ps}
    IN IF more = ps THEN ps ELSE Reach(g, more)

\* the package that declares obj, 0 if none of g does
PkgOf(g, obj) ==
    IF \E q \in 1 .. Len(g) : obj \in Declared(g[q].decls)
    THEN CHOOSE q \in 1 .. Len(g) : obj \in Declared(g[q].decls)
    ELSE 0

\* the driver's filter kept methods only (a slip: package-level functions
\* of the imported package dropped)
ExportedMethodsOnly(g, obj, dep) == obj \in Methods

\* the driver hands on the fact of obj from package dep
exportedFrom(g, obj, dep) ==
    \/ obj \in ExportedNames /\ PkgOf(g, obj) = dep
    \/ obj \in Methods

\* the facts a pass on a package with the imports `imports` starts with
inheritFacts(g, ex, imports) ==
    UNION {{f \in ex[dep] : exportedFrom(g, f[1], dep)} : dep \in imports}

\* the packages whose pass is over
Analysed == {q \in 1 .. Len(pkgs) : exported[q] # <<>>}

\* the driver starts the pass on a package whose imports are analysed
StartUnit ==
    /\ cur = 0
    /\ phase = "idle"
    /\ \E q \in (1 .. Len(pkgs)) \ Analysed :
          /\ pkgs[q].imports \subseteq Analysed
          /\ cur' = q
          /\ unit' = pkgs[q].decls
          /\ facts' = inheritFacts(pkgs, [d \in 1 .. Len(pkgs) |-> IF exported[d] = <<>> THEN {} ELSE exported[d][1]],
                                   pkgs[q].imports)
    /\ queries' = {}
    /\ diags' = <<>>
    /\ phase' = "mark"
    /\ di' = 1
    /\ ni' = 1
    /\ closables' = <<>>
    /\ UNCHANGED <<analyzer, flowVars, pkgs, exported>>

\* the pass returns and the driver keeps its facts
EndUnit ==
    /\ cur # 0
    /\ phase = "done"
    /\ exported' = [exported EXCEPT ![cur] = <<facts>>]
    /\ cur' = 0
    /\ phase' = "idle"
    /\ UNCHANGED <<analyzer, flowVars, pkgs, unit, facts, queries, diags, di, ni, closables>>

NextDriver == StartUnit \/ EndUnit

\* //ka:permission-check on an exported function, and a resolver that calls it
CheckerExported == PermDecl(<<"CheckAccess">>, TRUE, FALSE, <<>>)
ResolverQuery == PermDecl(<<"Query">>, FALSE, TRUE, <<"CheckAccess">>)

\* //ka:closer on an exported function; f := open(); lib.CloseAll(f)
CloserExported == CloseDecl("CloseAll", 1, <<>>)
UsesCloseAll ==
    CloseDecl("useCloseAll", 0, Open("f") \o <<Call(Sel("lib", "CloseAll"), <<Ident("f")>>)>>)

\* f := open()
LeaksOne == CloseDecl("leakOne", 0, Open("f"))

PermPkgAlphabet == {Checker, CheckerPair, CheckerExported, ResolverGet, ResolverList, ResolverQuery}
ClosePkgAlphabet ==
    {CloserFunc, CloserTwice, CloserExported, UsesCloser, UsesShutdown, UsesCloseAll, LeaksOne}

\* the lists of one to MaxPkgDecls different declarations
PkgUnits(alphabet) ==
    UNION {{u \in [1 .. l -> alphabet] : \A j, k \in 1 .. l : j # k => u[j] # u[k]} :
            l \in 1 .. MaxPkgDecls}

\* Go's scopes: a name of another package is a method of a package reached
\* over imports, or an exported name of an imported package
Visible(g, imports, r) ==
    LET q == PkgOf(g, r)
    IN /\ q \in Reach(g, imports)
       /\ r \in Methods \/ (r \in ExportedNames /\ q \in imports)

\* a package that can follow the packages g
FitsAfter(g, alphabet, imports, decls) ==
    /\ \A r \in Declared(decls) : PkgOf(g, r) = 0
    /\ \A r \in RefsIn(decls) \cap UNION {Names(d) : d \in alphabet} :
          r \in Declared(decls) \/ Visible(g, imports, r)

\* the import graphs of n packages
RECURSIVE ImportGraphs(_, _)
ImportGraphs(alphabet, n) ==
    IF n = 0 THEN {<<>>}
    ELSE UNION {{Append(g, [imports |-> imports, decls |-> decls]) :
                    <<imports, decls>> \in
                        {x \in (SUBSET (1 .. n - 1)) \X PkgUnits(alphabet) :
                            FitsAfter(g, alphabet, x[1], x[2])}} :
                g \in ImportGraphs(alphabet, n - 1)}

InitImports ==
    /\ \/ analyzer = "perm" /\ pkgs \in ImportGraphs(PermPkgAlphabet, MaxPkgs)
       \/ analyzer = "close" /\ pkgs \in ImportGraphs(ClosePkgAlphabet, MaxPkgs)
    /\ cur = 0
    /\ exported = [q \in 1 .. Len(pkgs) |-> <<>>]
    /\ unit = <<>>
    /\ facts = {}
    /\ queries = {}
    /\ phase = "idle"
    /\ di = 1
    /\ ni = 1
    /\ closables = <<>>
    /\ diags = <<>>
    /\ NoFlow

\* always_close twice over every small package
SpecTwice == InitClose /\ [][NextClose \/ RerunClose]_vars

\* the driver over every small import graph
SpecImports == InitImports /\ [][NextFacts \/ NextDriver]_vars

\* declarations that hold a name the type checker has no object for:
\* //ka:permission-check and //ka:closer on such a function, and
\* `f := open(); gen(f)`
CheckerOpaque == PermDecl(<<"gen">>, TRUE, FALSE, <<>>)
CloserOpaque == CloseDecl("gen", 1, <<>>)
CallsOpaque == CloseDecl("callOpaque", 0, Open("f") \o <<Call(Ident("gen"), <<Ident("f")>>)>>)

OpaquePermAlphabet == {Checker, CheckerOpaque, ResolverGet, ResolverPut}
OpaqueCloseAlphabet == {CloserFunc, UsesCloser, UsesClose, LeaksOne, CloserOpaque, CallsOpaque}

InitOpaque ==
    /\ \/ unit \in Units(OpaquePermAlphabet) /\ StartPerm
       \/ unit \in Units(OpaqueCloseAlphabet) /\ StartClose
    /\ NoFlow
    /\ NoDriver

\* the fact-using passes over packages with names that do not resolve
SpecOpaque == InitOpaque /\ [][NextFacts]_vars

\* the walk alone, over every small graph; a call that can take a step does
SpecGraph == InitGraph /\ [][NextLog]_vars /\ WF_vars(NextLog)

---------------------------------------------------------------------------
(* Properties *)

\* the run of the pass over the function has ended
Done ==
    \/ analyzer = "log" /\ stack = <<>>
    \/ analyzer = "http" /\ hblock = NumBlocks
    \/ analyzer \in {"perm", "close"} /\ phase = "done"

\* the whole function body is the one block `nodes`
BodyIs(nodes) == DOMAIN cfg = {0} /\ cfg[0].Nodes = nodes

\* C1: for `err := doX(); logger.Warn(err); return err` with the single
\* result error-typed, the run reports exactly one diagnostic: "logged or
\* returned, but not both", at err in the return statement, naming the
\* logger call's err as the previous log.
C1_LoggedAndReturned ==
    (analyzer = "log" /\ sig = <<ErrorField>> /\ Done
        /\ BodyIs(<<AssignErr, LogErr, ReturnErr>>))
    => diags = <<Report(<<0, 3, 1>>, LoggedAndReturned, <<0, 2, 1>>)>>

C1_Witness ==
    /\ analyzer = "log" /\ sig = <<ErrorField>> /\ Done
    /\ BodyIs(<<AssignErr, LogErr, ReturnErr>>)
    /\ Len(diags) = 1 /\ diags[1].msg = LoggedAndReturned

\* C2: for `err := doX(); logger.Warn(err); logger.Error(err)` the run
\* reports exactly one diagnostic: "logged twice", at err in the second
\* logger call, naming err in the first call as the previous log.
C2_LoggedTwice ==
    (analyzer = "log" /\ Done /\ BodyIs(<<AssignErr, LogErr, LogErr>>))
    => diags = <<Report(<<0, 3, 1>>, LoggedTwice, <<0, 2, 1>>)>>

C2_Witness ==
    /\ analyzer = "log" /\ Done
    /\ BodyIs(<<AssignErr, LogErr, LogErr>>)
    /\ Len(diags) = 1 /\ diags[1].msg = LoggedTwice

\* C3 as stated: for the block `http.Error(..); log(x); return` exactly one
\* diagnostic is reported and its position is in the statement log(x).
C3_AtFollowingStatement ==
    (analyzer = "http" /\ Done /\ BodyIs(<<HTTPError, LogX, ReturnStmt>>))
    => /\ Len(diags) = 1
       /\ diags[1].pos[1] = 0 /\ diags[1].pos[2] = 2

\* C3 amended: for the block `http.Error(..); log(x); return` exactly one
\* diagnostic is reported; its position is the identifier of the
\* must-return-after call in the first statement, and it names that call.
C3_AtCall ==
    (analyzer = "http" /\ Done /\ BodyIs(<<HTTPError, LogX, ReturnStmt>>))
    => diags = <<Report(<<0, 1, 1>>, MustReturnMsg, "net/http.Error")>>

C3_Witness ==
    /\ analyzer = "http" /\ Done
    /\ BodyIs(<<HTTPError, LogX, ReturnStmt>>)
    /\ Len(diags) = 1

\* the block is a must-return-after call, k statements without one, a return
CallThenStmts(nodes, k) ==
    /\ Len(nodes) = k + 2
    /\ nodes[1] = HTTPError
    /\ \A j \in 2 .. k + 1 : nodes[j] = LogX
    /\ nodes[k + 2] = ReturnStmt

\* C4 as stated: a must-return-after call followed by k >= 1 statements
\* before the return gives k diagnostics, one for each of the k statements.
C4_EveryStatementReported ==
    \A k \in 1 .. MaxNodes :
        (analyzer = "http" /\ Done /\ DOMAIN cfg = {0}
            /\ CallThenStmts(cfg[0].Nodes, k))
        => Len(diags) = k

\* C4 amended: the owed return lasts one statement: each node replaces it by
\* its own must-return-after call or none, so of the k >= 1 statements
\* between the call and the return only the first is reported, giving one
\* diagnostic whatever k is.
C4_OnlyFirstReported ==
    \A k \in 1 .. MaxNodes :
        (analyzer = "http" /\ Done /\ DOMAIN cfg = {0}
            /\ CallThenStmts(cfg[0].Nodes, k))
        => diags = <<Report(<<0, 1, 1>>, MustReturnMsg, "net/http.Error")>>

C4_Witness ==
    /\ analyzer = "http" /\ Done /\ DOMAIN cfg = {0}
    /\ CallThenStmts(cfg[0].Nodes, 2)
    /\ Len(diags) = 1

\* C5: no two diagnostics of one run of the log-or-return walk have the
\* same position and the same message.
C5_NoDuplicateDiagnostics ==
    analyzer = "log" =>
        \A i, j \in 1 .. Len(diags) : i # j => diags[i] # diags[j]

\* C6: a successor is entered with the state the block was left with at
\* the end of its nodes, whatever the walk of its earlier siblings did.
C6_SiblingIsolation ==
    (analyzer = "log" /\ Len(stack) >= 2 /\ Top.n = 1 /\ Top.i = 1)
    => heap[Top.m] = stack[Len(stack) - 1].exit

\* the second successor of a block is entered with err not logged after
\* the walk of the first successor has logged err in its own map
C6_Witness ==
    /\ analyzer = "log" /\ Len(stack) >= 2 /\ Top.n = 1 /\ Top.i = 1
    /\ LET parent == stack[Len(stack) - 1]
       IN /\ Len(cfg[parent.block].Succs) = 2 /\ parent.i = 3
          /\ "err" \in DOMAIN parent.exit /\ parent.exit["err"] = Nil
          /\ heap[Top.m] = parent.exit
          /\ \E h \in 1 .. Len(heap) :
                "err" \in DOMAIN heap[h] /\ heap[h]["err"] # Nil

\* C7: the counter of an edge never exceeds 2.
C7_EdgeBound ==
    analyzer = "log" =>
        \A e \in DOMAIN traversedPaths : traversedPaths[e] <= 2

\* a self-loop has been traversed twice
C7_Witness ==
    /\ analyzer = "log"
    /\ \E b \in DOMAIN cfg :
         <<b, b>> \in DOMAIN traversedPaths /\ traversedPaths[<<b, b>>] = 2

\* C8: the walk started at the entry block ends, on every graph.
C8_Termination == <>(analyzer = "log" /\ stack = <<>>)

\* the walk has ended on a graph with a cycle through two blocks
C8_Witness ==
    /\ analyzer = "log" /\ stack = <<>>
    /\ \E a, b \in DOMAIN cfg :
         /\ a # b
         /\ <<a, b>> \in DOMAIN traversedPaths /\ traversedPaths[<<a, b>>] = 2
         /\ <<b, a>> \in DOMAIN traversedPaths /\ traversedPaths[<<b, a>>] = 2

\* C9: a second run of the pass over the same graph reports the same
\* diagnostics in the same order as the first.
C9_Deterministic == (run = 2 /\ Done) => diags = firstDiags

C9_Witness == run = 2 /\ Done /\ Len(diags) >= 2 /\ analyzer = "log"

\* the symbols a declaration asks to be marked, read off its doc comment
Directed(decl) ==
    IF analyzer = "perm"
    THEN IF decl.directive THEN {decl.names[k] : k \in 1 .. Len(decl.names)} \ Unresolvable ELSE {}
    ELSE IF decl.closer > 0 THEN {decl.names[1]} \ Unresolvable ELSE {}

\* the fact type of the running pass
FactOf == IF analyzer = "perm" THEN IsPermissionChecker ELSE IsCloser

DirectedIn(decls) == UNION {Directed(decls[k]) : k \in 1 .. Len(decls)}

\* C10: within one package the marking walk is over before the first query
\* is made: while it runs no query has been made, once it is over every
\* symbol whose declaration carries the directive has its fact, and every
\* query made for such a symbol returned true, wherever the symbol is
\* declared and whatever else is marked
C10_SameUnitRoundTrip ==
    /\ phase = "mark" => queries = {}
    /\ phase \in {"check", "collect", "verify", "report", "done"} =>
          \A obj \in DirectedIn(unit) : <<obj, FactOf>> \in facts
    /\ \A q \in queries : q.fact = FactOf /\ (q.obj \in DirectedIn(unit) => q.result)

\* a true answer for a symbol that is declared behind the function that asks,
\* in a package that marks another symbol too
C10_Witness ==
    \E q \in queries :
        /\ q.result
        /\ \E k \in 1 .. Len(unit) : k > q.by /\ q.obj \in Directed(unit[k])
        /\ \E other \in DirectedIn(unit) : other # q.obj

\* the symbols whose declaration carries the directive in the packages the
\* running package reaches over its imports
DirectedAbove ==
    UNION {DirectedIn(pkgs[q].decls) : q \in Reach(pkgs, pkgs[cur].imports)}

\* C11: a query made in a package for a symbol that was marked in a package
\* it imports, directly or not, returns true, in every order in which the
\* driver takes the packages; no package is analysed a second time
C11_CrossUnitVisibility ==
    /\ cur # 0 => \A q \in queries : q.obj \in DirectedAbove => q.result
    /\ cur # 0 => cur \notin Analysed /\ pkgs[cur].imports \subseteq Analysed

\* a true answer for a symbol of a package that is reached over two imports
\* only, while another package was analysed in between
C11_Witness ==
    /\ cur # 0
    /\ \E q \in queries :
          /\ q.result
          /\ PkgOf(pkgs, q.obj) \in Reach(pkgs, pkgs[cur].imports) \ pkgs[cur].imports
          /\ q.obj \in DirectedAbove
    /\ Cardinality(Analysed) = MaxPkgs - 1

AcquisitionSites(d, obj) ==
    {<<d, n, i>> : <<n, i>> \in
        {x \in (1 .. Len(unit[d].nodes)) \X (1 .. MaxNodes) :
            LET node == unit[d].nodes[x[1]]
            IN /\ node.kind = "assign"
               /\ x[2] <= Len(node.lhs)
               /\ node.lhs[x[2]] = Ident(obj)
               /\ obj \in Closable
               /\ ~_assignedFromNoOp(node.rhs, x[2])}}

\* the function calls Close on obj or hands it to a function marked a closer
ReleasedIn(d, obj) ==
    \E n \in 1 .. Len(unit[d].nodes) :
        LET node == unit[d].nodes[n]
        IN /\ node.kind = "call"
           /\ \/ node.fun = Sel(obj, "Close")
              \/ /\ <<node.fun.name, IsCloser>> \in facts
                 /\ \E k \in 1 .. Len(node.args) : node.args[k] = Ident(obj)

\* obj is the source of an assignment, an element of a composite literal or
\* a result of a return of the function
EscapesIn(d, obj) ==
    \E n \in 1 .. Len(unit[d].nodes) :
        LET node == unit[d].nodes[n]
        IN /\ node.kind \in {"assign", "composite", "return"}
           /\ \E k \in 1 .. Len(node.rhs) :
                 /\ node.rhs[k].form \in {"ident", "unary", "kv"}
                 /\ node.rhs[k].name = obj

\* the diagnostics reported at one of the positions
ReportsAt(sites) == {k \in 1 .. Len(diags) : diags[k].pos \in sites}

\* C13: when the pass is over, every closable that a function acquires and
\* neither releases nor lets escape has exactly one diagnostic, and it is at
\* an assignment that acquires it, however many assignments acquire it
C13_ReportedOnceAtAcquisition ==
    (analyzer = "close" /\ phase = "done") =>
        \A d \in 1 .. Len(unit) : \A obj \in Closable :
            (AcquisitionSites(d, obj) # {} /\ ~ReleasedIn(d, obj) /\ ~EscapesIn(d, obj)) =>
                /\ Cardinality(ReportsAt(AcquisitionSites(d, obj))) = 1
                /\ \A k \in ReportsAt(AcquisitionSites(d, obj)) : diags[k].msg = NeedsCloseMsg

\* a function that acquires f by two assignments and never closes it, with
\* its one diagnostic
C13_Witness ==
    /\ analyzer = "close"
    /\ phase = "done"
    /\ \E d \in 1 .. Len(unit) :
          /\ Cardinality(AcquisitionSites(d, "f")) = 2
          /\ ~ReleasedIn(d, "f")
          /\ ~EscapesIn(d, "f")
          /\ Cardinality(ReportsAt(AcquisitionSites(d, "f"))) = 1

\* C14: when the pass is over, a closable that a function acquires and that
\* is the source of an assignment, an element of a composite literal or a
\* result of a return of the function (as x, &x, *x, (x) or key: x) has no
\* diagnostic, closed or not
C14_EscapedNeverReported ==
    (analyzer = "close" /\ phase = "done") =>
        \A d \in 1 .. Len(unit) : \A obj \in Closable :
            (AcquisitionSites(d, obj) # {} /\ EscapesIn(d, obj)) =>
                ReportsAt(AcquisitionSites(d, obj)) = {}

\* the kinds of node that let obj escape in declaration d
EscapeKinds(d, obj) ==
    {unit[d].nodes[n].kind : n \in
        {j \in 1 .. Len(unit[d].nodes) :
            /\ unit[d].nodes[j].kind \in {"assign", "composite", "return"}
            /\ \E k \in 1 .. Len(unit[d].nodes[j].rhs) :
                  /\ unit[d].nodes[j].rhs[k].form \in {"ident", "unary", "kv"}
                  /\ unit[d].nodes[j].rhs[k].name = obj}}

\* a package with a return, an assignment and a composite literal that each
\* let an unclosed closable escape, analysed without a diagnostic for them
C14_Witness ==
    /\ analyzer = "close"
    /\ phase = "done"
    /\ UNION {EscapeKinds(d, obj) : <<d, obj>> \in
                {x \in (1 .. Len(unit)) \X Closable :
                    AcquisitionSites(x[1], x[2]) # {} /\ ~ReleasedIn(x[1], x[2])}}
          = {"assign", "composite", "return"}

\* C15: the second run of always_close over a package reports its
\* diagnostics in the order of the first run
C15_StableOrder ==
    (analyzer = "close" /\ run = 2 /\ phase = "done") => diags = firstDiags

\* the live successors of a set of blocks
LiveSuccs(bs) ==
    {c \in DOMAIN cfg : cfg[c].Live /\ \E b \in bs : \E k \in 1 .. Len(cfg[b].Succs) :
                                            cfg[b].Succs[k] = c}

RECURSIVE Closure(_)
Closure(bs) ==
    LET more == bs \cup LiveSuccs(bs)
    IN IF more = bs THEN bs ELSE Closure(more)

\* the live blocks that follow block b on some path of live blocks
After(b) == Closure(LiveSuccs({b}))

\* the blocks on the paths of live blocks from the entry
OnPaths == IF cfg[0].Live THEN {0} \cup After(0) ELSE {}

Symbols(node) == {node.refs[k] : k \in 1 .. Len(node.refs)}

\* node n2 of block b2 comes behind node n1 of block b1 on some path
Behind(b1, n1, b2, n2) ==
    /\ b1 \in OnPaths
    /\ (b2 = b1 /\ n2 > n1) \/ b2 \in After(b1)

\* the nodes of a kind, as <<block, index>>
NodesOf(kind) ==
    {x \in (DOMAIN cfg) \X (1 .. MaxNodes) :
        x[2] <= Len(cfg[x[1]].Nodes) /\ cfg[x[1]].Nodes[x[2]].kind = kind}

\* some path assigns an error symbol and calls the logger on it later
LogsAssigned ==
    \E a \in NodesOf("assign"), l \in NodesOf("log") :
        /\ Behind(a[1], a[2], l[1], l[2])
        /\ Symbols(cfg[a[1]].Nodes[a[2]]) \cap Symbols(cfg[l[1]].Nodes[l[2]]) \cap ErrorTyped # {}

HasTarget(node) ==
    \E k \in 1 .. Len(node.refs) : node.refs[k] \in {"net/http.Error", "net/http.Redirect"}

\* every node of the function that names a target has a return statement as
\* the next node of its block
ReturnFollowsEveryTarget ==
    \A b \in DOMAIN cfg : \A n \in 1 .. Len(cfg[b].Nodes) :
        HasTarget(cfg[b].Nodes[n]) =>
            /\ n < Len(cfg[b].Nodes)
            /\ cfg[b].Nodes[n + 1].kind = "return"

\* C17: httpreturn reports nothing for a function in which every statement
\* with a must-return-after call is followed by a return in its block, and
\* so nothing for a function without such a call
C17_SilentWhenReturnFollows ==
    (analyzer = "http" /\ ReturnFollowsEveryTarget) => diags = <<>>

\* `callFoo(); return` analysed, without a diagnostic; the same for a body
\* of statements none of which names a target
C17_Witness ==
    /\ analyzer = "http"
    /\ Done
    /\ diags = <<>>
    /\ \/ BodyIs(<<HTTPError, ReturnStmt>>)
       \/ BodyIs(<<LogX, LogX, ReturnStmt>>) /\ run = 2

\* no block follows itself
Acyclic == \A b \in DOMAIN cfg : b \notin After(b)

\* some path assigns an error symbol, calls the logger on it and later
\* returns it or calls the logger on it again
LogsThenViolates ==
    \E a \in NodesOf("assign"), l \in NodesOf("log"),
       v \in NodesOf("return") \cup NodesOf("log") :
        /\ Behind(a[1], a[2], l[1], l[2])
        /\ Behind(l[1], l[2], v[1], v[2])

\* C18: in a graph without cycles the first run of the walk ends with a
\* diagnostic whenever some path assigns an error symbol, logs it and later
\* returns it or logs it again
C18_AcyclicPathsEvaluated ==
    (analyzer = "log" /\ run = 1 /\ stack = <<>> /\ Acyclic /\ LogsThenViolates) =>
        diags # <<>>

\* the types of the results of a signature, one entry for each result
RECURSIVE Flatten(_)
Flatten(results) ==
    IF results = <<>> THEN <<>>
    ELSE [k \in 1 .. (IF Head(results).names > 0 THEN Head(results).names ELSE 1) |->
             Head(results).type] \o Flatten(Tail(results))

\* the positions, from 0, of the results typed error
ErrorPositions(results) == {k - 1 : k \in {j \in 1 .. Width(results) : Flatten(results)[j] = "error"}}

Range(seq) == {seq[k] : k \in 1 .. Len(seq)}

\* C19: _errorResultIndices gives the positions of the results typed error,
\* each once, in rising order
C19_ExactIndices ==
    analyzer = "log" =>
        /\ Range(_errorResultIndices(sig)) = ErrorPositions(sig)
        /\ Len(_errorResultIndices(sig)) = Cardinality(ErrorPositions(sig))

\* C20: every 'logged or returned' diagnostic is at a result whose position
\* in the signature is typed error
C20_OnlyErrorPositions ==
    analyzer = "log" =>
        \A k \in 1 .. Len(diags) :
            diags[k].msg = LoggedAndReturned => (diags[k].pos[3] - 1) \in ErrorPositions(sig)

\* in the one block of the body the logger is called on err at node n and
\* err is returned or logged again at node v, with no assignment in between
LoggedThenUsed(nodes, n, v) ==
    /\ n < v
    /\ nodes[n] = LogErr
    /\ nodes[v] \in {LogErr, ReturnErr}
    /\ \A j \in n + 1 .. v - 1 : nodes[j] # AssignErr

\* C21: a logger call marks every error symbol of its arguments that is not
\* marked yet, assigned before or not, so that a one-block body that logs
\* err and later returns it or logs it again ends with a diagnostic
C21_MarksUnassigned ==
    (/\ analyzer = "log" /\ run = 1 /\ stack = <<>>
     /\ DOMAIN cfg = {0}
     /\ \E n, v \in 1 .. Len(cfg[0].Nodes) : LoggedThenUsed(cfg[0].Nodes, n, v))
        => diags # <<>>

\* C22: an assignment to err discards its logged mark: in a one-block body
\* every diagnostic at node v names a logger call at a node n before v with
\* no assignment to err between n and v
C22_AssignmentResets ==
    (analyzer = "log" /\ DOMAIN cfg = {0}) =>
        \A k \in 1 .. Len(diags) :
            \E n \in 1 .. Len(cfg[0].Nodes) :
                /\ LoggedThenUsed(cfg[0].Nodes, n, diags[k].pos[2])
                /\ diags[k].arg = <<0, n, 1>>

\* `err := f(); log(err); err = g(); return err` analysed without a diagnostic
C22_Witness ==
    /\ analyzer = "log"
    /\ Done
    /\ BodyIs(<<AssignErr, LogErr, AssignErr, ReturnErr>>)
    /\ diags = <<>>

\* the graph of `for c {..}; ..` with every block live: entry 0, loop
\* header 1, loop body 2, exit 3
IsLoop ==
    /\ DOMAIN cfg = 0 .. 3
    /\ [b \in 0 .. 3 |-> cfg[b].Succs] = [b \in 0 .. 3 |-> ForShape[b + 1]]
    /\ \A b \in 0 .. 3 : cfg[b].Live

\* err is assigned before the loop, logged once, in the loop body at node n,
\* and not assigned inside the loop
AssignedBeforeLoggedIn(n) ==
    /\ \E k \in 1 .. Len(cfg[0].Nodes) : cfg[0].Nodes[k] = AssignErr
    /\ \A k \in 1 .. Len(cfg[0].Nodes) : cfg[0].Nodes[k] # LogErr
    /\ \A k \in 1 .. Len(cfg[1].Nodes) : cfg[1].Nodes[k] \notin {AssignErr, LogErr}
    /\ n \in 1 .. Len(cfg[2].Nodes)
    /\ \A k \in 1 .. Len(cfg[2].Nodes) :
           /\ cfg[2].Nodes[k] # AssignErr
           /\ cfg[2].Nodes[k] = LogErr <=> k = n

\* C23: the loop body is visited a second time with the state its first visit
\* left: the one logger call of the body is reported with itself as the
\* earlier logger call
C23_LoopCarried ==
    (analyzer = "log" /\ Done /\ IsLoop) =>
        \A n \in 1 .. MaxNodes :
            AssignedBeforeLoggedIn(n) =>
                \E k \in 1 .. Len(diags) :
                    /\ diags[k].msg = LoggedTwice
                    /\ diags[k].pos = <<2, n, 1>>
                    /\ diags[k].arg = <<2, n, 1>>

\* `err := f(); for c { log(err) }` analysed to the end
C23_Witness ==
    /\ analyzer = "log"
    /\ Done
    /\ IsLoop
    /\ cfg[0].Nodes = <<AssignErr>>
    /\ cfg[1].Nodes = <<>>
    /\ cfg[2].Nodes = <<LogErr>>
    /\ AssignedBeforeLoggedIn(1)
    /\ Len(diags) = 1

\* the last node of block b holds a call after which the function must return
EndsOwing(b) ==
    /\ cfg[b].Live
    /\ cfg[b].Nodes # <<>>
    /\ _mustReturnAfter(cfg[b].Nodes[Len(cfg[b].Nodes)], b, Len(cfg[b].Nodes)) # NoCall

\* the diagnostics at the last node of block b
AtBlockEnd(b) ==
    {k \in 1 .. Len(diags) :
        diags[k].pos[1] = b /\ diags[k].pos[2] = Len(cfg[b].Nodes)}

\* C24: a live block that ends with a must-return-after call gets exactly one
\* diagnostic for its end if it has a successor, whatever the successors
\* begin with, and none if it has no successor
C24_EndOfBlockRule ==
    (analyzer = "http" /\ Done) =>
        \A b \in DOMAIN cfg :
            EndsOwing(b) =>
                Cardinality(AtBlockEnd(b)) = IF Len(cfg[b].Succs) > 0 THEN 1 ELSE 0

\* `http.Error(..); if c { return }; return` analysed: one diagnostic for
\* the end of the entry block, both of whose successors begin with a return
C24_Witness ==
    /\ analyzer = "http"
    /\ Done
    /\ DOMAIN cfg = 0 .. 2
    /\ cfg[0].Nodes = <<HTTPError>>
    /\ cfg[0].Succs = <<1, 2>>
    /\ cfg[1].Live /\ cfg[1].Nodes = <<ReturnStmt>>
    /\ cfg[2].Live /\ cfg[2].Nodes = <<ReturnStmt>>
    /\ EndsOwing(0)
    /\ Cardinality(AtBlockEnd(0)) = 1

\* a body that ends with `http.Error(..)` in a block without successor,
\* analysed without a diagnostic
C24_NoSuccessor ==
    /\ analyzer = "http"
    /\ Done
    /\ \E b \in DOMAIN cfg : EndsOwing(b) /\ cfg[b].Succs = <<>>
    /\ diags = <<>>

\* the statement of block b that follows node n is not a return, or block b
\* ends at node n and has a successor
OwedWithin(b, n) ==
    \/ n < Len(cfg[b].Nodes) /\ cfg[b].Nodes[n + 1].kind # "return"
    \/ n = Len(cfg[b].Nodes) /\ cfg[b].Succs # <<>>

\* C25: the scan of a block starts from "none", and every diagnostic is
\* accounted for by the block of its own call, once: by the next statement
\* of that block or by that block's end
C25_NoCarryAcrossBlocks ==
    analyzer = "http" =>
        /\ hnode = 1 => mustReturn = NoCall
        /\ \A k \in 1 .. Len(diags) :
               /\ diags[k].pos[1] \in DOMAIN cfg
               /\ cfg[diags[k].pos[1]].Live
               /\ OwedWithin(diags[k].pos[1], diags[k].pos[2])
               /\ \A j \in 1 .. Len(diags) : diags[j].pos = diags[k].pos => j = k

\* `http.Error(..); if c { log(x) }; ..` analysed: the one diagnostic is the
\* one for the end of the entry block, none is made at the logger call that
\* begins the next block
C25_Witness ==
    /\ analyzer = "http"
    /\ Done
    /\ DOMAIN cfg = 0 .. 2
    /\ cfg[0].Nodes = <<HTTPError>>
    /\ cfg[0].Succs = <<1, 2>>
    /\ cfg[1].Live /\ cfg[1].Nodes = <<LogX>>
    /\ Len(diags) = 1
    /\ diags[1].pos = <<0, 1, 1>>

\* the blocks on which _checkBlockForLogsAndReturns has been called
Entered == {0} \cup {e[2] : e \in DOMAIN traversedPaths}

\* C26: the walk is called from live blocks on the paths from the entry
\* only, it looks at the nodes and successors of such blocks only, and when
\* it is over it has been called on every one of them
C26_ScansLiveReachable ==
    analyzer = "log" =>
        /\ \A e \in DOMAIN traversedPaths : e[1] \in OnPaths
        /\ \A k \in 1 .. Len(stack) :
               (stack[k].n > 1 \/ stack[k].i > 1) => stack[k].block \in OnPaths
        /\ {b \in Entered : cfg[b].Live} \subseteq OnPaths
        /\ stack = <<>> => OnPaths \subseteq Entered

\* a loop whose header is dead, analysed: the walk was called on the header
\* and on no block behind it
C26_Witness ==
    /\ analyzer = "log"
    /\ Done
    /\ DOMAIN cfg = 0 .. 3
    /\ ~cfg[1].Live
    /\ cfg[1].Succs = <<2, 3>>
    /\ cfg[2].Live /\ cfg[3].Live
    /\ Entered = {0, 1}
    /\ OnPaths = {0}

\* a branch with a dead arm, analysed: the live arm and the entry are what
\* the walk has looked at
C26_LiveArm ==
    /\ analyzer = "log"
    /\ Done
    /\ DOMAIN cfg = 0 .. 2
    /\ ~cfg[1].Live
    /\ cfg[2].Nodes # <<>>
    /\ OnPaths = {0, 2}
    /\ Entered = {0, 1, 2}

Shrinks ==
    /\ DOMAIN closables' \subseteq DOMAIN closables
    /\ \A obj \in DOMAIN closables' : closables'[obj] = closables[obj]

\* the closables with a diagnostic in declaration d
ReportedIn(d) == {diags[k].arg : k \in {j \in 1 .. Len(diags) : diags[j].pos[1] = d}}

\* the closables declaration d acquires and neither releases nor lets escape
Unreleased(d) ==
    {obj \in Closable :
        AcquisitionSites(d, obj) # {} /\ ~ReleasedIn(d, obj) /\ ~EscapesIn(d, obj)}

\* C28: the set is empty when the collection of a declaration begins and
\* holds acquisitions of that declaration only; from the end of the
\* collection to the end of the report loop no step adds or changes a
\* binding; every diagnostic names a closable at a place where its own
\* declaration acquires it; and what is reported for a declaration is what
\* that declaration acquires and neither releases nor lets escape
C28_TrackedSet ==
    /\ [](analyzer = "close" =>
            /\ (phase = "collect" /\ ni = 1) => closables = <<>>
            /\ \A obj \in DOMAIN closables : closables[obj] \in AcquisitionSites(di, obj)
            /\ \A k \in 1 .. Len(diags) :
                   diags[k].pos \in AcquisitionSites(diags[k].pos[1], diags[k].arg)
            /\ phase = "done" =>
                   \A d \in 1 .. Len(unit) : ReportedIn(d) = Unreleased(d))
    /\ [][(analyzer = "close" /\ phase \in {"verify", "report"}) => Shrinks]_vars

\* a package of three functions analysed: the first releases f, the second
\* lets f escape, the third leaks f, and f is reported for the third only
C28_Witness ==
    /\ analyzer = "close"
    /\ phase = "done"
    /\ Len(unit) = 3
    /\ unit[1] = UsesClose
    /\ unit[2] = HandsOn
    /\ unit[3] = Reopens
    /\ ReportedIn(1) = {} /\ ReportedIn(2) = {} /\ ReportedIn(3) = {"f"}

\* the number of times node x is in the list
Times(nodes, x) == Cardinality({n \in 1 .. Len(nodes) : nodes[n] = x})

\* two declarations hold the same statements, in whatever order
SameStatements(d, e) ==
    /\ Len(unit[d].nodes) = Len(unit[e].nodes)
    /\ \A n \in 1 .. Len(unit[d].nodes) :
           Times(unit[d].nodes, unit[d].nodes[n]) = Times(unit[e].nodes, unit[d].nodes[n])

\* obj is released or escapes at a node before every node that acquires it
CancelledFirst(d, obj) ==
    \E n \in 1 .. Len(unit[d].nodes) :
        /\ \A x \in AcquisitionSites(d, obj) : n < x[2]
        /\ LET node == unit[d].nodes[n]
           IN \/ node.kind = "call"
                 /\ \/ node.fun = Sel(obj, "Close")
                    \/ /\ <<node.fun.name, IsCloser>> \in facts
                       /\ \E k \in 1 .. Len(node.args) : node.args[k] = Ident(obj)
              \/ node.kind \in {"assign", "composite", "return"}
                 /\ \E k \in 1 .. Len(node.rhs) :
                       /\ node.rhs[k].form \in {"ident", "unary", "kv"}
                       /\ node.rhs[k].name = obj

\* C29: when the pass is over, two functions with the same statements in
\* different orders have the same closables reported, and a closable that
\* is released or escapes before the first assignment that acquires it has
\* no diagnostic
C29_OrderIndependent ==
    (analyzer = "close" /\ phase = "done") =>
        /\ \A d, e \in 1 .. Len(unit) :
               SameStatements(d, e) => ReportedIn(d) = ReportedIn(e)
        /\ \A d \in 1 .. Len(unit) : \A obj \in Closable :
               (AcquisitionSites(d, obj) # {} /\ CancelledFirst(d, obj)) =>
                   obj \notin ReportedIn(d)

\* a package analysed that holds `f.Close(); h := &g; f = open(); g = open()`
\* and the same statements with the acquisitions first: nothing is reported
C29_Witness ==
    /\ analyzer = "close"
    /\ phase = "done"
    /\ \E d, e \in 1 .. Len(unit) :
          /\ unit[d] = ReleasesFirst
          /\ unit[e] = ReleasesLast
          /\ SameStatements(d, e)
          /\ CancelledFirst(d, "f") /\ CancelledFirst(d, "g")
          /\ ReportedIn(d) = {} /\ ReportedIn(e) = {}
    /\ diags = <<>>

\* the closer call and the return placed first, with closeIt marked
C29_ReturnFirst ==
    /\ analyzer = "close"
    /\ phase = "done"
    /\ \E d \in 1 .. Len(unit) :
          /\ unit[d] = ReturnsFirst
          /\ CancelledFirst(d, "f") /\ CancelledFirst(d, "g")
          /\ ReportedIn(d) = {}

\* some declaration of the package marks or calls a name without object
HasOpaque ==
    \E d \in 1 .. Len(unit) :
        \/ unit[d].names[1] \in Unresolvable /\ (unit[d].directive \/ unit[d].closer > 0)
        \/ \E k \in 1 .. Len(unit[d].idents) : unit[d].idents[k] \in Unresolvable
        \/ \E n \in 1 .. Len(unit[d].nodes) :
              unit[d].nodes[n].kind = "call" /\ CalledObject(unit[d].nodes[n]) = NilObj

\* C30: a name without object never carries a fact, is never asked for, and
\* never stops a pass
C30_SkippedSilently ==
    (analyzer \in {"perm", "close"} /\ HasOpaque) =>
        /\ phase # "panic"
        /\ \A x \in facts : x[1] # NilObj
        /\ \A q \in queries : q.obj # NilObj

\* the permission pass alone keeps to it, and comes to its end on a package
\* that marks and asks for a name without object
C30_PermissionSkips ==
    (analyzer = "perm" /\ HasOpaque) =>
        /\ phase # "panic"
        /\ \A x \in facts : x[1] # NilObj
        /\ \A q \in queries : q.obj # NilObj

C30_PermissionEnds ==
    /\ analyzer = "perm"
    /\ phase = "done"
    /\ \E d, e \in 1 .. Len(unit) : unit[d] = CheckerOpaque /\ unit[e] = ResolverPut
    /\ facts = {}

\* the ownership tracker stops at the marking of a name without object and
\* at the call of one
C30_MarkingStops ==
    /\ analyzer = "close"
    /\ phase = "panic"
    /\ unit[di] = CloserOpaque

C30_CallStops ==
    /\ analyzer = "close"
    /\ phase = "panic"
    /\ unit[di] = CallsOpaque

====
